---------------------------- MODULE Spec2Model ----------------------------
(***************************************************************************)
(* The asynchronous conversion-job manager of docswap                      *)
(* (src/async_conversion.py, class AsyncConversionManager) and the         *)
(* conversion router (src/conversion/conversion_manager.py, class          *)
(* ConversionManager).                                                     *)
(*                                                                         *)
(* Every block the code runs under "with self.lock" is one atomic action.  *)
(* A worker of the ThreadPoolExecutor is a small process whose position    *)
(* (pc) walks through _process_conversion; the conversion function it      *)
(* calls is an adversary that may write the output file, report progress,  *)
(* return True or False, or raise.  The API thread (submit_conversion,     *)
(* cancel_job), the cleanup thread and the clock interleave freely with    *)
(* the workers.                                                            *)
(*                                                                         *)
(* The router is sequential: one call of convert walks through its         *)
(* validation and then through the candidate engines, each of which is an  *)
(* adversary that returns True or False or raises and leaves anything at   *)
(* output_path.  It is checked for whatever conversion matrices the        *)
(* registered engines have built, under its own specification RouterSpec;  *)
(* in Spec the router is at rest, in RouterSpec the job manager is.        *)
(***************************************************************************)
EXTENDS Integers, Sequences, FiniteSets, TLC

VARIABLES
    max_workers,   \* constructor argument of AsyncConversionManager
    job,           \* the ConversionJob objects ever created: id -> fields
    jobs,          \* keys of the dict self.jobs
    job_futures,   \* keys of the dict self.job_futures
    future,        \* state of the Future object created for each job
    work_queue,    \* the executor's FIFO of submitted work items (job ids)
    worker,        \* per executor thread: pc, job, returned value, exception
    executor_shutdown, \* self.executor has been shut down
    file,          \* what is on disk at each job's output_path
    now,           \* datetime.now(), in ticks
    hist,          \* history of each job (observation only)
    lock,          \* self.lock: the thread inside a "with self.lock" block
    entered,       \* the pool threads that have entered conversion_func
    engines,       \* keys of the dict self.engines of the router, in order
    conversion_matrix, \* engine key -> the conversion_matrix of the engine
    call,          \* the call of ConversionManager.convert in progress
    output         \* what is on disk at the output_path of that call

manager_vars == <<max_workers, job, jobs, job_futures, future, work_queue,
                  worker, file, now, hist, lock, entered, executor_shutdown>>

router_vars == <<engines, conversion_matrix, call, output>>

vars == <<manager_vars, router_vars>>

---------------------------------------------------------------------------
(* Bounds of the model. *)

MaxJobs == 2
MaxWorkers == 2
MaxTime == 1
MaxReports == 1
MaxQueued == 5
MaxEnhanced == 1

JobIds == 1..MaxJobs
Workers == 1..MaxWorkers

(* Optional[...] values: None is the empty sequence, a value x is <<x>>. *)
None == << >>
Some(x) == <<x>>

---------------------------------------------------------------------------
(* ConversionStatus *)

PENDING == "pending"
PROCESSING == "processing"
COMPLETED == "completed"
FAILED == "failed"
CANCELLED == "cancelled"

ConversionStatus == {PENDING, PROCESSING, COMPLETED, FAILED, CANCELLED}
Terminal == {COMPLETED, FAILED, CANCELLED}

(* What the conversion function may do: the (progress, message) pairs it   *)
(* may pass to the progress reporter (a negative value and one above 100,  *)
(* message None or a text), the str(e) of the exceptions it may raise      *)
(* (empty for "raise Exception()" and for a failed assert), and what it    *)
(* may leave at output_path.                                               *)
Reports == {<<-1, None>>, <<120, Some("Converting...")>>}
ExcMessages == {"", "engine crashed"}
FileStates == {"absent", "empty", "nonempty"}

Min(a, b) == IF a < b THEN a ELSE b
Max(a, b) == IF a > b THEN a ELSE b

---------------------------------------------------------------------------
(* ConversionJob as submit_conversion builds it. *)

NewJob ==
    [status       |-> PENDING,
     progress     |-> 0,
     message      |-> "Conversion queued",
     created_at   |-> now,
     started_at   |-> None,
     completed_at |-> None,
     error        |-> None]

NewHist ==
    [cancelled_pending    |-> FALSE,  \* cancel_job returned True while Pending
     cancelled_processing |-> FALSE,  \* cancel_job returned True while Processing
     invoked              |-> FALSE,  \* conversion_func was called
     reports              |-> 0,      \* progress reports made by the function
     outcome              |-> "none", \* "true" | "false" | "raise" | "abort",
                                      \* or the router's "success=true" |
                                      \* "success=false"
     handled              |-> FALSE]  \* _process_conversion has returned

(* self.lock when no thread holds it.  A held lock records the thread and  *)
(* where that thread stood when it entered the block.                      *)
Free == [holder |-> 0, stamp |-> <<"", 0>>]

(* The router between two calls of convert. *)
NoCall ==
    [ pc |-> "idle", input_format |-> "", output_format |-> "",
      input_exists |-> FALSE, available_engines |-> << >>, i |-> 0,
      last_error |-> None, invoked |-> << >>, result |-> None ]

IdleWorker == [pc |-> "idle", job |-> 0, success |-> FALSE, exc |-> ""]

Init ==
    /\ max_workers \in 1..MaxWorkers
    /\ job = << >>
    /\ jobs = {}
    /\ job_futures = {}
    /\ future = << >>
    /\ work_queue = << >>
    /\ worker = [w \in Workers |-> IdleWorker]
    /\ file = << >>
    /\ now = 0
    /\ hist = << >>
    /\ lock = Free
    /\ entered = {}
    /\ executor_shutdown = FALSE
    /\ engines = << >>
    /\ conversion_matrix = << >>
    /\ call = NoCall
    /\ output = "absent"

---------------------------------------------------------------------------
(* The clock.  One tick is a lapse longer than the retention of one hour   *)
(* (and than the five minutes between two cleanup passes): what completed  *)
(* in an earlier tick is older than the cutoff, what completed in the      *)
(* current tick is not.                                                    *)

Tick ==
    /\ now < MaxTime
    /\ now' = now + 1
    /\ UNCHANGED <<executor_shutdown, entered, lock, router_vars, max_workers, job, jobs, job_futures, future, work_queue,
                   worker, file, hist>>

---------------------------------------------------------------------------
(* submit_conversion: a fresh job id (uuid4), the job inserted Pending,    *)
(* the work item queued on the executor and its Future stored.             *)

(* Executor.submit raises RuntimeError once the executor has been shut     *)
(* down: no Future is created and no work item is queued.                  *)
SubmitRaises == executor_shutdown

SubmitJob ==
    /\ LET job_id == Len(job) + 1 IN
        /\ job' = Append(job, NewJob)
        /\ jobs' = jobs \cup {job_id}
        /\ file' = Append(file, "absent")
        /\ hist' = Append(hist, NewHist)
        /\ IF SubmitRaises
           THEN /\ future' = Append(future, "NONE")
                /\ UNCHANGED <<work_queue, job_futures>>
           ELSE /\ future' = Append(future, "PENDING")
                /\ work_queue' = Append(work_queue, job_id)
                /\ job_futures' = job_futures \cup {job_id}
    /\ UNCHANGED <<executor_shutdown, entered, lock, router_vars, max_workers, worker, now>>

submit_conversion ==
    /\ Len(job) < MaxJobs
    /\ SubmitJob

---------------------------------------------------------------------------
(* cancel_job *)

(* As CancelRejected, without the early return for a terminal job. *)
CancelRejectedUnknownOnly(job_id) == job_id \notin jobs

(* The two early returns: unknown job, or a job already terminal. *)
CancelRejected(job_id) ==
    \/ job_id \notin jobs
    \/ job[job_id].status \in {COMPLETED, FAILED, CANCELLED}

(* Future.cancel(): only a Future no worker has started yet is cancelled. *)
FutureCancel(job_id) ==
    IF job_id \in job_futures /\ future[job_id] = "PENDING"
    THEN [future EXCEPT ![job_id] = "CANCELLED"]
    ELSE future

(* What cancel_job returns, and the fields of the job it writes. *)
cancel_job_result(job_id) == ~CancelRejected(job_id)

cancel_job_update(job_id) ==
    IF CancelRejected(job_id)
    THEN job
    ELSE [job EXCEPT ![job_id].status = CANCELLED,
                     ![job_id].message = "Conversion cancelled by user",
                     ![job_id].completed_at = Some(now)]

cancel_job(job_id) ==
    /\ job' = cancel_job_update(job_id)
    /\ IF cancel_job_result(job_id)
       THEN /\ future' = FutureCancel(job_id)
            /\ hist' = [hist EXCEPT
                   ![job_id].cancelled_pending =
                       @ \/ job[job_id].status = PENDING,
                   ![job_id].cancelled_processing =
                       @ \/ job[job_id].status = PROCESSING]
       ELSE UNCHANGED <<future, hist>>
    /\ UNCHANGED <<executor_shutdown, entered, lock, router_vars, max_workers, jobs, job_futures, work_queue, worker, file, now>>

---------------------------------------------------------------------------
(* The executor: an idle thread takes the oldest work item (the threads    *)
(* are interchangeable: the idle one of lowest index stands for any).  A   *)
(* work item whose Future was cancelled is dropped                         *)
(* (set_running_or_notify_cancel); otherwise the Future becomes RUNNING    *)
(* and the thread is about to enter _process_conversion, not yet holding   *)
(* the lock.                                                               *)

(* As ThreadAvailable, for a pool that does not cap its threads. *)
ThreadAvailableUncapped(w) ==
    /\ worker[w].pc = "idle"
    /\ \A v \in 1..(w - 1) : worker[v].pc # "idle"

(* Thread w of the pool exists and is idle; among idle threads the one of  *)
(* lowest index takes the item (the threads are interchangeable).          *)
ThreadAvailable(w) ==
    /\ w <= max_workers
    /\ worker[w].pc = "idle"
    /\ \A v \in 1..(w - 1) : worker[v].pc # "idle"

(* As OldestWorkItem, for a queue served last in, first out. *)
NewestWorkItem(queue) == Len(queue)

(* The executor's work queue is first in, first out: the index taken. *)
OldestWorkItem(queue) == 1

executor_take(w) ==
    /\ ThreadAvailable(w)
    /\ work_queue # << >>
    /\ LET i == OldestWorkItem(work_queue)
           job_id == work_queue[i]
       IN
        /\ work_queue' = SubSeq(work_queue, 1, i - 1)
                            \o SubSeq(work_queue, i + 1, Len(work_queue))
        /\ IF future[job_id] = "CANCELLED"
           THEN UNCHANGED <<future, worker>>
           ELSE /\ future' = [future EXCEPT ![job_id] = "RUNNING"]
                /\ worker' = [worker EXCEPT ![w] =
                       [pc |-> "start", job |-> job_id, success |-> FALSE, exc |-> ""]]
    /\ UNCHANGED <<executor_shutdown, entered, lock, router_vars, max_workers, job, jobs, job_futures, file, now, hist>>

(* _process_conversion, first locked block: the job is moved to Processing *)
(* whatever its status is.                                                 *)
process_start(w) ==
    /\ worker[w].pc = "start"
    /\ LET job_id == worker[w].job IN
        job' = [job EXCEPT ![job_id].status = PROCESSING,
                           ![job_id].started_at = Some(now),
                           ![job_id].progress = 5,
                           ![job_id].message = "Starting conversion..."]
    /\ worker' = [worker EXCEPT ![w].pc = "cb10"]
    /\ UNCHANGED <<executor_shutdown, entered, lock, router_vars, max_workers, jobs, job_futures, future, work_queue, file,
                   now, hist>>

(* progress_callback: raises when the job is Cancelled, otherwise stores   *)
(* the clamped progress and, when given, the message.                      *)
ReporterAborts(job_id) == job[job_id].status = CANCELLED

(* As Clamp, without the floor at 0. *)
ClampWithoutFloor(progress) == Min(progress, 95)

(* As Clamp, with the ceiling at 100 instead of 95. *)
ClampTo100(progress) == Min(Max(progress, 0), 100)

Clamp(progress) == Min(Max(progress, 0), 95)

progress_callback(job_id, progress, message) ==
    [job EXCEPT ![job_id].progress = Clamp(progress),
                ![job_id].message = IF message # None THEN message[1] ELSE @]

(* A call of the reporter by the worker itself, before the function runs:  *)
(* on abort control goes to the except clause, otherwise to pc next.       *)
WorkerReports(w, progress, message, next) ==
    LET job_id == worker[w].job IN
    IF ReporterAborts(job_id)
    THEN /\ worker' = [worker EXCEPT ![w].pc = "except",
                                     ![w].exc = "Conversion cancelled"]
         /\ hist' = [hist EXCEPT ![job_id].outcome = "abort"]
         /\ UNCHANGED job
    ELSE /\ job' = progress_callback(job_id, progress, message)
         /\ worker' = [worker EXCEPT ![w].pc = next]
         /\ hist' = [hist EXCEPT ![job_id].invoked = @ \/ next = "call"]

prepare_progress(w) ==
    /\ worker[w].pc = "cb10"
    /\ WorkerReports(w, 10, Some("Preparing conversion..."), "cb20")
    /\ UNCHANGED <<executor_shutdown, entered, lock, router_vars, max_workers, jobs, job_futures, future, work_queue, file,
                   now>>

(* progress_callback(20, ...) and, when it returns, the call of            *)
(* conversion_func.                                                        *)
processing_progress(w) ==
    /\ worker[w].pc = "cb20"
    /\ WorkerReports(w, 20, Some("Processing file..."), "call")
    /\ UNCHANGED <<executor_shutdown, entered, lock, router_vars, max_workers, jobs, job_futures, future, work_queue, file,
                   now>>

---------------------------------------------------------------------------
(* The conversion function, while it runs (pc = "call"). *)

func_report(w, progress, message) ==
    /\ worker[w].pc = "call"
    /\ LET job_id == worker[w].job IN
        /\ hist[job_id].reports < MaxReports
        /\ IF ReporterAborts(job_id)
           THEN /\ worker' = [worker EXCEPT ![w].pc = "except",
                                            ![w].exc = "Conversion cancelled"]
                /\ hist' = [hist EXCEPT ![job_id].outcome = "abort",
                                        ![job_id].reports = @ + 1]
                /\ UNCHANGED job
           ELSE /\ job' = progress_callback(job_id, progress, message)
                /\ hist' = [hist EXCEPT ![job_id].reports = @ + 1]
                /\ UNCHANGED worker
    /\ UNCHANGED <<executor_shutdown, entered, lock, router_vars, max_workers, jobs, job_futures, future, work_queue, file,
                   now>>

func_write(w, content) ==
    /\ worker[w].pc = "call"
    /\ file[worker[w].job] # content
    /\ file' = [file EXCEPT ![worker[w].job] = content]
    /\ UNCHANGED <<executor_shutdown, entered, lock, router_vars, max_workers, job, jobs, job_futures, future, work_queue,
                   worker, now, hist>>

func_return(w, success) ==
    /\ worker[w].pc = "call"
    /\ worker' = [worker EXCEPT ![w].pc = "finalize", ![w].success = success]
    /\ hist' = [hist EXCEPT ![worker[w].job].outcome =
                                IF success THEN "true" ELSE "false"]
    /\ UNCHANGED <<executor_shutdown, entered, lock, router_vars, max_workers, job, jobs, job_futures, future, work_queue,
                   file, now>>

func_raise(w, e) ==
    /\ worker[w].pc = "call"
    /\ worker' = [worker EXCEPT ![w].pc = "except", ![w].exc = e]
    /\ hist' = [hist EXCEPT ![worker[w].job].outcome = "raise"]
    /\ UNCHANGED <<executor_shutdown, entered, lock, router_vars, max_workers, job, jobs, job_futures, future, work_queue,
                   file, now>>

---------------------------------------------------------------------------
(* _process_conversion after the function returned (second locked block). *)

(* As FinalizeSeesCancelled, without the check. *)
FinalizeIgnoresCancelled(job_id) == FALSE

FinalizeSeesCancelled(job_id) == job[job_id].status = CANCELLED

(* "success and os.path.exists(job.output_path)" *)
ConversionSucceeded(success, job_id) == success /\ file[job_id] # "absent"

process_finalize(w) ==
    /\ worker[w].pc = "finalize"
    /\ LET job_id == worker[w].job IN
        /\ IF FinalizeSeesCancelled(job_id)
           THEN UNCHANGED job
           ELSE IF ConversionSucceeded(worker[w].success, job_id)
           THEN job' = [job EXCEPT
                    ![job_id].status = COMPLETED,
                    ![job_id].progress = 100,
                    ![job_id].message = "Conversion completed successfully",
                    ![job_id].completed_at = Some(now)]
           ELSE job' = [job EXCEPT
                    ![job_id].status = FAILED,
                    ![job_id].progress = 0,
                    ![job_id].message = "Conversion failed",
                    ![job_id].error = Some("Conversion function returned False or output file not created"),
                    ![job_id].completed_at = Some(now)]
        /\ future' = [future EXCEPT ![job_id] = "FINISHED"]
        /\ hist' = [hist EXCEPT ![job_id].handled = TRUE]
    /\ worker' = [worker EXCEPT ![w] = IdleWorker]
    /\ UNCHANGED <<executor_shutdown, entered, lock, router_vars, max_workers, jobs, job_futures, work_queue, file, now>>

(* The except clause: an exception of the function or of the reporter. *)

(* As ExceptSeesCancelled, for a handler that records no failure. *)
ExceptRecordsNothing(job_id) == TRUE

ExceptSeesCancelled(job_id) == job[job_id].status = CANCELLED

process_except(w) ==
    /\ worker[w].pc = "except"
    /\ LET job_id == worker[w].job
           e == worker[w].exc IN
        /\ IF ExceptSeesCancelled(job_id)
           THEN UNCHANGED <<job, file>>
           ELSE /\ job' = [job EXCEPT
                       ![job_id].status = FAILED,
                       ![job_id].progress = 0,
                       ![job_id].message = "Conversion failed: " \o e,
                       ![job_id].error = Some(e),
                       ![job_id].completed_at = Some(now)]
                /\ file' = [file EXCEPT ![job_id] = "absent"]
        /\ future' = [future EXCEPT ![job_id] = "FINISHED"]
        /\ hist' = [hist EXCEPT ![job_id].handled = TRUE]
    /\ worker' = [worker EXCEPT ![w] = IdleWorker]
    /\ UNCHANGED <<executor_shutdown, entered, lock, router_vars, max_workers, jobs, job_futures, work_queue, now>>

---------------------------------------------------------------------------
(* _cleanup_expired_jobs, one pass: every job whose completed_at is set    *)
(* and older than the cutoff leaves self.jobs and self.job_futures.        *)

(* datetime.now() - timedelta(hours=1) lies between the previous tick and  *)
(* the current one: "completed_at < cutoff_time" is "completed before the  *)
(* current tick".                                                          *)
cutoff_time == now

Expired(job_id) ==
    /\ job[job_id].completed_at # None
    /\ job[job_id].completed_at[1] < cutoff_time

cleanup_expired_jobs ==
    /\ \E job_id \in jobs : Expired(job_id)
    /\ LET expired_jobs == {job_id \in jobs : Expired(job_id)} IN
        /\ jobs' = jobs \ expired_jobs
        /\ job_futures' = job_futures \ expired_jobs
    /\ UNCHANGED <<executor_shutdown, entered, lock, router_vars, max_workers, job, future, work_queue, worker, file, now,
                   hist>>

---------------------------------------------------------------------------
(* get_queue_position and get_queue_status: read-only snapshots taken      *)
(* under the lock.                                                         *)

(* self.jobs.values(): the registered jobs in insertion order, which is    *)
(* the order of the job ids.                                               *)
jobs_values ==
    LET Registered(job_id) == job_id \in jobs
    IN  SelectSeq([i \in 1..Len(job) |-> i], Registered)

(* As CreatedBefore, with the comparison reversed. *)
CreatedAfter(a, b) == job[a].created_at > job[b].created_at

(* key=lambda x: x.created_at, compared with "<" by list.sort *)
CreatedBefore(a, b) == job[a].created_at < job[b].created_at

(* One step of a stable sort: x goes before the first element that is      *)
(* strictly later than it, after every element with an equal key.          *)
InsertByCreatedAt(sorted, x) ==
    LET later == {i \in 1..Len(sorted) : CreatedBefore(x, sorted[i])}
        p == IF later = {} THEN Len(sorted) + 1
             ELSE CHOOSE i \in later : \A k \in later : i <= k
    IN  SubSeq(sorted, 1, p - 1) \o <<x>> \o SubSeq(sorted, p, Len(sorted))

RECURSIVE SortByCreatedAt(_)
SortByCreatedAt(seq) ==
    IF seq = << >> THEN << >>
    ELSE InsertByCreatedAt(SortByCreatedAt(SubSeq(seq, 1, Len(seq) - 1)),
                           seq[Len(seq)])

get_queue_position(job_id) ==
    IF job_id \notin jobs \/ job[job_id].status # PENDING
    THEN 0
    ELSE LET IsPending(j) == job[j].status = PENDING
             pending_jobs == SortByCreatedAt(SelectSeq(jobs_values, IsPending))
         IN  CHOOSE i \in 1..Len(pending_jobs) : pending_jobs[i] = job_id

CountStatus(status) == Cardinality({job_id \in jobs : job[job_id].status = status})

get_queue_status ==
    [ total_jobs      |-> Cardinality(jobs),
      pending_jobs    |-> CountStatus(PENDING),
      processing_jobs |-> CountStatus(PROCESSING),
      completed_jobs  |-> CountStatus(COMPLETED),
      failed_jobs     |-> CountStatus(FAILED),
      max_workers     |-> max_workers,
      active_workers  |-> CountStatus(PROCESSING) ]

---------------------------------------------------------------------------
Next ==
    \/ Tick
    \/ submit_conversion
    \/ \E job_id \in JobIds : cancel_job(job_id)
    \/ \E w \in Workers : executor_take(w)
    \/ \E w \in Workers : process_start(w)
    \/ \E w \in Workers : prepare_progress(w)
    \/ \E w \in Workers : processing_progress(w)
    \/ \E w \in Workers, r \in Reports : func_report(w, r[1], r[2])
    \/ \E w \in Workers, content \in FileStates : func_write(w, content)
    \/ \E w \in Workers, success \in BOOLEAN : func_return(w, success)
    \/ \E w \in Workers, e \in ExcMessages : func_raise(w, e)
    \/ \E w \in Workers : process_finalize(w)
    \/ \E w \in Workers : process_except(w)
    \/ cleanup_expired_jobs

Spec == Init /\ [][Next]_vars

---------------------------------------------------------------------------
(* The manager with its shutdown, on a pool of one thread.                 *)
(* self.executor.shutdown(wait=True) marks the executor as shut down; the  *)
(* work items already queued are still run.                                *)

shutdown ==
    /\ ~executor_shutdown
    /\ executor_shutdown' = TRUE
    /\ UNCHANGED <<entered, lock, router_vars, max_workers, job, jobs, job_futures, future,
                   work_queue, worker, file, now, hist>>

ShutdownInit ==
    /\ Init
    /\ max_workers = 1

ShutdownNext ==
    \/ Next
    \/ shutdown

ShutdownSpec == ShutdownInit /\ [][ShutdownNext]_vars

---------------------------------------------------------------------------
(* The queueing scenario: jobs submitted one after another onto a pool of  *)
(* one thread whose conversion functions are still running (they write and *)
(* report, none returns or raises) and that nobody cancels.                *)

QueueInit ==
    /\ Init
    /\ max_workers = 1

submit_in_order ==
    /\ Len(job) < MaxQueued
    /\ SubmitJob

QueueNext ==
    \/ Tick
    \/ submit_in_order
    \/ \E w \in Workers : executor_take(w)
    \/ \E w \in Workers : process_start(w)
    \/ \E w \in Workers : prepare_progress(w)
    \/ \E w \in Workers : processing_progress(w)
    \/ \E w \in Workers, r \in Reports : func_report(w, r[1], r[2])
    \/ \E w \in Workers, content \in FileStates : func_write(w, content)

QueueSpec == QueueInit /\ [][QueueNext]_vars

---------------------------------------------------------------------------
(* Fair scheduling.  A pool thread that can take the next step of its      *)
(* wrapper (dequeue a work item, enter a locked block, report, finalize)   *)
(* eventually takes it, and a conversion function that has been called     *)
(* eventually returns or raises.                                           *)

WorkerStep(w) ==
    \/ executor_take(w)
    \/ process_start(w)
    \/ prepare_progress(w)
    \/ processing_progress(w)
    \/ process_finalize(w)
    \/ process_except(w)

FunctionEnds(w) ==
    \/ \E success \in BOOLEAN : func_return(w, success)
    \/ \E e \in ExcMessages : func_raise(w, e)

Fairness ==
    \A w \in Workers : WF_vars(WorkerStep(w)) /\ WF_vars(FunctionEnds(w))

(* The steps that read or write a job's status.  The clock and the janitor  *)
(* are left out: they write only now, self.jobs and self.job_futures, and  *)
(* the only step that reads those is cancel_job, which a removed job makes *)
(* reject; every sequence of statuses of the full system is one of this.   *)
JobNext ==
    \/ submit_conversion
    \/ \E job_id \in JobIds : cancel_job(job_id)
    \/ \E w \in Workers : executor_take(w)
    \/ \E w \in Workers : process_start(w)
    \/ \E w \in Workers : prepare_progress(w)
    \/ \E w \in Workers : processing_progress(w)
    \/ \E w \in Workers, r \in Reports : func_report(w, r[1], r[2])
    \/ \E w \in Workers, content \in FileStates : func_write(w, content)
    \/ \E w \in Workers, success \in BOOLEAN : func_return(w, success)
    \/ \E w \in Workers, e \in ExcMessages : func_raise(w, e)
    \/ \E w \in Workers : process_finalize(w)
    \/ \E w \in Workers : process_except(w)

FairSpec == Init /\ [][JobNext]_vars /\ Fairness

---------------------------------------------------------------------------
(* The conversion router: construction.                                    *)

(* Format names as callers write them, and str.lower() on them. *)
FormatNames == {"pdf", "PDF", "png", "txt"}

lower(x) == IF x = "PDF" THEN "pdf" ELSE x

(* What a caller may pass as a format: a format name, or a value that is   *)
(* not a string (None), on which .lower() raises AttributeError.           *)
NotAString == "<None>"

FormatArguments == FormatNames \cup {NotAString}

(* The keys of self.engines in the order _initialize_engines inserts them, *)
(* and the name each engine gives itself.                                  *)
EngineKeys == <<"image", "document">>

name(engine_name) ==
    IF engine_name = "image" THEN "ImageEngine" ELSE "DocumentEngine"

(* _initialize_engines registers the engines inside one try block: an      *)
(* exception in a constructor leaves the engines registered before it.     *)
Registrations == {SubSeq(EngineKeys, 1, n) : n \in 0..Len(EngineKeys)}

(* The conversion_matrix an engine has built, as the list of the items of  *)
(* the dict: <<input format, list of output formats>>.  Which entries it   *)
(* has depends on the libraries the engine found.                          *)
Matrices ==
    { << >>,
      << <<"pdf", <<"png">>>> >>,
      << <<"pdf", <<"png", "txt">>>>, <<"png", << >>>> >>,
      << <<"png", <<"pdf">>>>, <<"pdf", <<"png">>>> >> }

Range(seq) == {seq[i] : i \in 1..Len(seq)}

RECURSIVE Concat(_)
Concat(seqs) ==
    IF seqs = << >> THEN << >> ELSE Head(seqs) \o Concat(Tail(seqs))

RECURSIVE Dedup(_)
Dedup(seq) ==
    IF seq = << >> THEN << >>
    ELSE LET front == Dedup(SubSeq(seq, 1, Len(seq) - 1))
             x == seq[Len(seq)]
         IN  IF x \in Range(front) THEN front ELSE Append(front, x)

(* ConversionEngine.can_convert of one engine, on its own matrix. *)
engine_can_convert(engine_name, input_format, output_format) ==
    \E i \in 1..Len(conversion_matrix[engine_name]) :
        LET item == conversion_matrix[engine_name][i] IN
        /\ item[1] = lower(input_format)
        /\ lower(output_format) \in Range(item[2])

(* The iterations of the innermost loop of                                 *)
(* _build_global_conversion_matrix, in order:                              *)
(* <<engine_name, input_format, output_format>>.                           *)
BuildSteps ==
    Concat([n \in 1..Len(engines) |->
        Concat([i \in 1..Len(conversion_matrix[engines[n]]) |->
            LET item == conversion_matrix[engines[n]][i] IN
            [k \in 1..Len(item[2]) |-> <<engines[n], item[1], item[2][k]>>]])])

(* f"{input_format}_{output_format}" *)
conversion_key(input_format, output_format) == <<input_format, output_format>>

global_matrix ==
    LET keys == UNION {{item[1] : item \in Range(conversion_matrix[e])} :
                          e \in Range(engines)}
    IN  [input_format \in keys |->
            LET From(step) == step[2] = input_format
                steps == SelectSeq(BuildSteps, From)
            IN  Dedup([k \in 1..Len(steps) |-> steps[k][3]])]

(* As format_to_engine, when the list of a key is assigned, not appended   *)
(* to: the engine registered last replaces the others.                     *)
format_to_engine_last_only ==
    LET keys == {conversion_key(step[2], step[3]) : step \in Range(BuildSteps)}
    IN  [key \in keys |->
            LET For(step) == conversion_key(step[2], step[3]) = key
                steps == SelectSeq(BuildSteps, For)
            IN  <<steps[Len(steps)][1]>>]

format_to_engine ==
    LET keys == {conversion_key(step[2], step[3]) : step \in Range(BuildSteps)}
    IN  [key \in keys |->
            LET For(step) == conversion_key(step[2], step[3]) = key
                steps == SelectSeq(BuildSteps, For)
            IN  [k \in 1..Len(steps) |-> steps[k][1]]]

get_conversion_matrix == global_matrix

(* As can_convert, without the two calls of lower(). *)
can_convert_as_written(input_format, output_format) ==
    /\ input_format \in DOMAIN global_matrix
    /\ output_format \in Range(global_matrix[input_format])

can_convert(input_format, output_format) ==
    /\ lower(input_format) \in DOMAIN global_matrix
    /\ lower(output_format) \in Range(global_matrix[lower(input_format)])

---------------------------------------------------------------------------
(* The conversion router: one call of convert.                             *)

(* What engine.convert does: it returns True or False or raises, and       *)
(* leaves nothing, an empty file or a non-empty file at output_path.       *)
EngineOutcomes == {"True", "False", "ConversionError", "Exception"}

Raised(returned) == returned \in {"ConversionError", "Exception"}

(* str(e) of the exception an engine raised. *)
ErrorText(engine_name, returned) == <<engine_name, returned>>

(* os.path.getsize *)
getsize(content) == IF content = "nonempty" THEN 1 ELSE 0

SuccessResult(engine_name, content) ==
    [ success |-> TRUE, engine |-> Some(name(engine_name)),
      file_size |-> Some(getsize(content)), error |-> None,
      attempted_engines |-> None ]

FailureResult(error, detail, attempted) ==
    [ success |-> FALSE, engine |-> None, file_size |-> None,
      error |-> Some(<<error, detail>>), attempted_engines |-> attempted ]

(* As InputMissing, for a router that does not look at input_path. *)
InputNeverMissing(input_exists) == FALSE

(* "not os.path.exists(input_path)" *)
InputMissing(input_exists) == ~input_exists

(* As Candidates, with the list in the opposite order. *)
CandidatesReversed(key) ==
    IF key \in DOMAIN format_to_engine
    THEN [k \in 1..Len(format_to_engine[key]) |->
             format_to_engine[key][Len(format_to_engine[key]) + 1 - k]]
    ELSE << >>

(* self.format_to_engine.get(conversion_key, []) *)
Candidates(key) ==
    IF key \in DOMAIN format_to_engine THEN format_to_engine[key] ELSE << >>

(* "except Exception as e" around the whole body of convert. *)
CaughtByConvert(exception) == exception \in {"AttributeError"}

(* The body of convert has raised outside the loop over the engines. *)
convert_raise(exception) ==
    IF CaughtByConvert(exception)
    THEN call' = [NoCall EXCEPT !.pc = "done", !.result =
             Some(FailureResult("Conversion manager error",
                                 Some(<<"convert", exception>>), None))]
    ELSE call' = [NoCall EXCEPT !.pc = "raised"]

(* Validation, up to the loop over the candidate engines. *)
convert_call(input_exists, input_format, output_format, existing) ==
    /\ call.pc = "idle"
    /\ output' = existing
    /\ IF input_format = NotAString \/ output_format = NotAString
       THEN convert_raise("AttributeError")
       ELSE
       LET in == lower(input_format)
           out == lower(output_format)
           started == [NoCall EXCEPT !.input_format = in,
                                     !.output_format = out,
                                     !.input_exists = input_exists]
           available_engines == Candidates(conversion_key(in, out))
       IN  IF ~can_convert(in, out)
           THEN call' = [started EXCEPT !.pc = "done", !.result =
                   Some(FailureResult("Conversion not supported", None, None))]
           ELSE IF InputMissing(input_exists)
           THEN call' = [started EXCEPT !.pc = "done", !.result =
                   Some(FailureResult("Input file not found", None, None))]
           ELSE IF available_engines = << >>
           THEN call' = [started EXCEPT !.pc = "done", !.result =
                   Some(FailureResult("No engine available", None, None))]
           ELSE call' = [started EXCEPT !.pc = "loop", !.i = 1,
                             !.available_engines = available_engines]
    /\ UNCHANGED <<manager_vars, engines, conversion_matrix>>

(* "success and os.path.exists(output_path)" *)
EngineSucceeded(returned, content) == returned = "True" /\ content # "absent"

(* As MoreCandidates, for a loop that ends with the first failure. *)
NoMoreCandidates(i, available_engines) == FALSE

(* "for engine_name in available_engines": another iteration follows. *)
MoreCandidates(i, available_engines) == i < Len(available_engines)

(* One iteration of the loop: the engine is invoked; on success convert    *)
(* returns, otherwise the next candidate follows, and after the last one   *)
(* convert returns the failure.                                            *)
engine_convert(returned, leaves) ==
    /\ call.pc = "loop"
    /\ output' = leaves
    /\ LET engine_name == call.available_engines[call.i]
           invoked == Append(call.invoked,
                          [engine |-> engine_name, returned |-> returned,
                           leaves |-> leaves])
           last_error == IF Raised(returned)
                         THEN Some(ErrorText(engine_name, returned))
                         ELSE call.last_error
       IN  IF EngineSucceeded(returned, leaves)
           THEN call' = [call EXCEPT !.pc = "done", !.invoked = invoked,
                             !.result = Some(SuccessResult(engine_name, leaves))]
           ELSE IF MoreCandidates(call.i, call.available_engines)
           THEN call' = [call EXCEPT !.i = call.i + 1, !.invoked = invoked,
                             !.last_error = last_error]
           ELSE call' = [call EXCEPT !.pc = "done", !.invoked = invoked,
                             !.last_error = last_error,
                             !.result = Some(FailureResult("All engines failed",
                                 last_error, Some(call.available_engines)))]
    /\ UNCHANGED <<manager_vars, engines, conversion_matrix>>

(* The caller has the result; the router is ready for the next call. *)
convert_return ==
    /\ call.pc \in {"done", "raised"}
    /\ call' = NoCall
    /\ UNCHANGED <<manager_vars, engines, conversion_matrix, output>>

RouterInit ==
    /\ max_workers = 1
    /\ job = << >>
    /\ jobs = {}
    /\ job_futures = {}
    /\ future = << >>
    /\ work_queue = << >>
    /\ worker = [w \in Workers |-> IdleWorker]
    /\ file = << >>
    /\ now = 0
    /\ hist = << >>
    /\ lock = Free
    /\ entered = {}
    /\ executor_shutdown = FALSE
    /\ engines \in Registrations
    /\ conversion_matrix \in [Range(engines) -> Matrices]
    /\ call = NoCall
    /\ output = "absent"

RouterNext ==
    \/ \E input_exists \in BOOLEAN, input_format \in FormatArguments,
          output_format \in FormatArguments, existing \in FileStates :
              convert_call(input_exists, input_format, output_format, existing)
    \/ \E returned \in EngineOutcomes, leaves \in FileStates :
              engine_convert(returned, leaves)
    \/ convert_return

RouterSpec == RouterInit /\ [][RouterNext]_vars

---------------------------------------------------------------------------
(* A job whose conversion function is the wrapper the HTTP layer builds    *)
(* around the router (api/app.py, enhanced_conversion): the function       *)
(* called by the pool thread is one call of ConversionManager.convert, and *)
(* what it returns is the router's result record.  One pool thread, so one *)
(* call of convert at a time; output is the job's output_path.             *)

(* bool(d) of a dict, as "success and ..." evaluates it: a dict with at    *)
(* least one key is true.                                                  *)
bool(d) == DOMAIN d # {}

(* The wrapper exists only for a pair the router accepted at submission. *)
submit_enhanced ==
    /\ \E input_format \in FormatNames, output_format \in FormatNames :
           can_convert(input_format, output_format)
    /\ Len(job) < MaxEnhanced
    /\ SubmitJob

enhanced_conversion_call(w, input_exists, input_format, output_format) ==
    /\ worker[w].pc = "call"
    /\ can_convert(input_format, output_format)
    /\ convert_call(input_exists, input_format, output_format,
                    file[worker[w].job])

enhanced_conversion_engine(w, returned, leaves) ==
    /\ worker[w].pc = "call"
    /\ engine_convert(returned, leaves)

(* "return conversion_manager.convert(...)": the record goes back to       *)
(* _process_conversion as the value of success.                            *)
enhanced_conversion_return(w) ==
    /\ worker[w].pc = "call"
    /\ call.pc = "done"
    /\ LET job_id == worker[w].job IN
        /\ worker' = [worker EXCEPT ![w].pc = "finalize",
                                    ![w].success = bool(call.result[1])]
        /\ file' = [file EXCEPT ![job_id] = output]
        /\ hist' = [hist EXCEPT ![job_id].outcome =
                       IF call.result[1].success THEN "success=true"
                                                 ELSE "success=false"]
    /\ call' = NoCall
    /\ UNCHANGED <<executor_shutdown, entered, lock, max_workers, job, jobs, job_futures, future,
                   work_queue, now, engines, conversion_matrix, output>>

EnhancedNext ==
    \/ submit_enhanced
    \/ \E job_id \in JobIds : cancel_job(job_id)
    \/ \E w \in Workers : executor_take(w)
    \/ \E w \in Workers : process_start(w)
    \/ \E w \in Workers : prepare_progress(w)
    \/ \E w \in Workers : processing_progress(w)
    \/ \E w \in Workers, input_exists \in BOOLEAN,
          input_format \in FormatNames, output_format \in FormatNames :
              enhanced_conversion_call(w, input_exists, input_format, output_format)
    \/ \E w \in Workers, returned \in EngineOutcomes, leaves \in FileStates :
              enhanced_conversion_engine(w, returned, leaves)
    \/ \E w \in Workers : enhanced_conversion_return(w)
    \/ \E w \in Workers : process_finalize(w)
    \/ \E w \in Workers : process_except(w)

EnhancedSpec == RouterInit /\ [][EnhancedNext]_vars

---------------------------------------------------------------------------
(* The registry lock made explicit.  In the specifications above a block   *)
(* "with self.lock" is one step; here a pool thread enters the block       *)
(* (lock_acquire), runs its body, and leaves it (lock_release) in three    *)
(* steps, so that what the other threads can do while it is inside a block *)
(* is visible.  The calls of the API thread (submit_conversion,            *)
(* cancel_job) never block inside their block and stay one step, which     *)
(* needs the lock free.                                                    *)

(* Where thread w stands: its position and the reports of its job so far;  *)
(* the body of every block of a pool thread changes it.                    *)
Stamp(w) ==
    <<worker[w].pc,
      IF worker[w].job = 0 THEN 0 ELSE hist[worker[w].job].reports>>

(* The positions at which a pool thread is about to enter a block: the     *)
(* first block of _process_conversion, the two reports of the wrapper, the *)
(* block after the function returned, the block of the except clause.      *)
BlockEntries == {"start", "cb10", "cb20", "finalize", "except"}

(* The function is about to call the reporter, which enters a block. *)
AboutToReport(w) ==
    /\ worker[w].pc = "call"
    /\ w \in entered
    /\ hist[worker[w].job].reports < MaxReports

lock_acquire(w) ==
    /\ lock = Free
    /\ worker[w].pc \in BlockEntries \/ AboutToReport(w)
    /\ lock' = [holder |-> w, stamp |-> Stamp(w)]
    /\ entered' = IF worker[w].pc = "call" THEN entered ELSE entered \ {w}
    /\ UNCHANGED <<executor_shutdown, router_vars, max_workers, job, jobs, job_futures, future,
                   work_queue, worker, file, now, hist>>

(* As BlockDone, for a block that stretches over the call of the function. *)
BlockDoneAfterCall(w) == Stamp(w) # lock.stamp /\ worker[w].pc # "call"

(* Thread w has run the body of the block it entered. *)
BlockDone(w) == Stamp(w) # lock.stamp

(* Thread w is in the body of a block; it is at the end of a block; it is  *)
(* in code that is in no block.                                            *)
InBlock(w) == lock.holder = w /\ Stamp(w) = lock.stamp

AtBlockEnd(w) == lock.holder = w /\ BlockDone(w)

Outside(w) == ~InBlock(w) /\ ~AtBlockEnd(w)

lock_release(w) ==
    /\ AtBlockEnd(w)
    /\ lock' = Free
    /\ UNCHANGED <<executor_shutdown, entered, router_vars, max_workers, job, jobs, job_futures,
                   future, work_queue, worker, file, now, hist>>

(* "success = conversion_func(...)": the thread enters the function. *)
func_enter(w) ==
    /\ worker[w].pc = "call"
    /\ w \notin entered
    /\ Outside(w)
    /\ entered' = entered \cup {w}
    /\ UNCHANGED <<executor_shutdown, lock, router_vars, max_workers, job, jobs, job_futures,
                   future, work_queue, worker, file, now, hist>>

Running(w) == w \in entered /\ Outside(w)

LockNext ==
    \/ lock = Free /\ submit_conversion
    \/ \E job_id \in JobIds : lock = Free /\ cancel_job(job_id)
    \/ \E w \in Workers : Outside(w) /\ executor_take(w)
    \/ \E w \in Workers : lock_acquire(w)
    \/ \E w \in Workers : InBlock(w) /\ process_start(w)
    \/ \E w \in Workers : InBlock(w) /\ prepare_progress(w)
    \/ \E w \in Workers : InBlock(w) /\ processing_progress(w)
    \/ \E w \in Workers : func_enter(w)
    \/ \E w \in Workers, r \in Reports : InBlock(w) /\ func_report(w, r[1], r[2])
    \/ \E w \in Workers, content \in FileStates : Running(w) /\ func_write(w, content)
    \/ \E w \in Workers, success \in BOOLEAN : Running(w) /\ func_return(w, success)
    \/ \E w \in Workers, e \in ExcMessages : Running(w) /\ func_raise(w, e)
    \/ \E w \in Workers : InBlock(w) /\ process_finalize(w)
    \/ \E w \in Workers : InBlock(w) /\ process_except(w)
    \/ \E w \in Workers : lock_release(w)

LockSpec == Init /\ [][LockNext]_vars

---------------------------------------------------------------------------
(* Properties. *)

Created == DOMAIN job
CancelAccepted(j) == hist[j].cancelled_pending \/ hist[j].cancelled_processing

(* The edges of the job state machine. *)
Edges ==
    {<<PENDING, PROCESSING>>, <<PROCESSING, COMPLETED>>, <<PROCESSING, FAILED>>,
     <<PENDING, CANCELLED>>, <<PROCESSING, CANCELLED>>}

(* C1: every change of a job's status is one of the edges Pending ->       *)
(* Processing, Processing -> Completed, Processing -> Failed, Pending ->   *)
(* Cancelled, Processing -> Cancelled; hence a terminal job never changes  *)
(* status again.                                                           *)
C1_StatusFollowsEdges ==
    [][\A j \in Created :
          job'[j].status # job[j].status
              => <<job[j].status, job'[j].status>> \in Edges]_vars

(* C2: a job for which cancel_job returned True while it was Pending is    *)
(* Cancelled from then on and its conversion function is never invoked.    *)
C2_CancelPendingNeverRuns ==
    \A j \in Created :
        hist[j].cancelled_pending
            => job[j].status = CANCELLED /\ ~hist[j].invoked

(* C3: cancel_job on an unknown job id, or on a job already Completed,     *)
(* Failed or Cancelled, returns False and changes neither the registry nor *)
(* any field of the job (so a second cancel_job on a job still Cancelled   *)
(* returns False).                                                         *)
UnknownOrTerminal(j) == j \notin jobs \/ job[j].status \in Terminal

C3_RejectedCancelIsNoop ==
    /\ [](\A j \in JobIds :
            UnknownOrTerminal(j)
                => ~cancel_job_result(j) /\ cancel_job_update(j) = job)
    /\ [][\A j \in JobIds :
            UnknownOrTerminal(j) /\ cancel_job(j)
                => UNCHANGED <<job, jobs, job_futures, future, work_queue>>]_vars

(* A first cancel_job has cancelled a job that is still in the registry    *)
(* and whose function is still running, and another job id is unknown to   *)
(* the registry: a cancel_job on either is rejected.                       *)
C3_Witness ==
    /\ \E j \in jobs : /\ job[j].status = CANCELLED
                       /\ hist[j].cancelled_processing
                       /\ \E w \in Workers : worker[w].job = j
    /\ \E j \in JobIds : j \notin jobs

(* C4: once a job is Completed, Failed or Cancelled, no step changes any   *)
(* of its fields while it stays in the registry.                           *)
C4_TerminalIsImmutable ==
    [][\A j \in jobs \cap jobs' :
          job[j].status \in Terminal => job'[j] = job[j]]_vars

(* C5: a job for which cancel_job returned True while it was Processing    *)
(* stays Cancelled with no error, whatever its function does afterwards.   *)
C5_CancelProcessingSticks ==
    \A j \in Created :
        hist[j].cancelled_processing
            => job[j].status = CANCELLED /\ job[j].error = None

(* The function of a job cancelled while Processing has gone on to write   *)
(* its output and return success, and the worker is through with the job.  *)
C5_Witness ==
    \E j \in Created :
        /\ hist[j].cancelled_processing
        /\ hist[j].outcome = "true"
        /\ file[j] = "nonempty"
        /\ hist[j].handled

(* C6: when the function of a job never cancelled has returned, the job is *)
(* Completed with progress 100 if it returned success and the output file  *)
(* exists and is non-empty, and otherwise Failed with progress 0 and a     *)
(* non-empty error.                                                        *)
C6_CompletedIffNonEmptyOutput ==
    \A j \in Created :
        hist[j].handled /\ hist[j].outcome \in {"true", "false"} /\ ~CancelAccepted(j)
            => IF hist[j].outcome = "true" /\ file[j] = "nonempty"
               THEN job[j].status = COMPLETED /\ job[j].progress = 100
               ELSE /\ job[j].status = FAILED
                    /\ job[j].progress = 0
                    /\ job[j].error # None
                    /\ job[j].error # Some("")

(* C7: when the function of a job never cancelled has raised, the job is   *)
(* Failed with a non-empty error string, and the thread that ran it is     *)
(* free for the next work item.                                            *)
C7_RaiseFailsWithError ==
    \A j \in Created :
        hist[j].handled /\ hist[j].outcome = "raise" /\ ~CancelAccepted(j)
            => /\ job[j].status = FAILED
               /\ job[j].error # None
               /\ job[j].error # Some("")
               /\ \A w \in Workers : worker[w].job # j

(* C8: no file is left at the output_path of a Failed job. *)
C8_FailedLeavesNoOutput ==
    \A j \in Created : job[j].status = FAILED => file[j] = "absent"

(* C9: while a job is Processing its progress never decreases. *)
C9_ProgressMonotone ==
    [][\A j \in Created :
          job[j].status = PROCESSING /\ job'[j].status = PROCESSING
              => job'[j].progress >= job[j].progress]_vars

(* C10: for every job in the registry, progress = 100 exactly when the     *)
(* status is Completed.                                                    *)
C10_HundredIffCompleted ==
    \A j \in jobs : (job[j].progress = 100) <=> (job[j].status = COMPLETED)

(* One job is Completed at 100 while another, Processing, has reported 120 *)
(* and shows 95.                                                           *)
C10_Witness ==
    /\ \E j \in jobs : job[j].status = COMPLETED /\ job[j].progress = 100
    /\ \E j \in jobs : /\ job[j].status = PROCESSING
                       /\ job[j].message = "Converting..."
                       /\ job[j].progress = 95


(* C11: get_queue_position is 0 for an id that is not registered or whose  *)
(* job is not Pending; for a Pending job it is its rank, counted from 1,   *)
(* among the jobs Pending in the same snapshot in ascending created_at, so *)
(* the positions of the P Pending jobs are exactly 1..P.                   *)
PendingNow == {j \in jobs : job[j].status = PENDING}

C11_QueuePositionIsRank ==
    /\ \A j \in JobIds \cup {MaxJobs + 1} :
           j \notin PendingNow => get_queue_position(j) = 0
    /\ \A j, k \in PendingNow :
           job[j].created_at < job[k].created_at
               => get_queue_position(j) < get_queue_position(k)
    /\ {get_queue_position(j) : j \in PendingNow} = 1..Cardinality(PendingNow)
    /\ \A j, k \in PendingNow :
           j # k => get_queue_position(j) # get_queue_position(k)

C11_Witness ==
    \E j, k \in PendingNow :
        /\ job[j].created_at < job[k].created_at
        /\ get_queue_position(j) = 1
        /\ get_queue_position(k) = 2


(* C12: N jobs submitted in order onto an idle pool of one thread whose    *)
(* functions are still running: once the thread has moved the first job to *)
(* Processing, job 1 is the only Processing job, get_queue_status counts   *)
(* N - 1 Pending jobs and job k (k >= 2) has queue position k - 1, so the  *)
(* positions increase from job 1 (position 0) to job N.                    *)
Quiescent == worker[1].pc \in {"cb10", "cb20", "call"}

C12_QueueOfOneThread ==
    Quiescent =>
        LET N == Len(job) IN
        /\ {j \in 1..N : job[j].status = PROCESSING} = {1}
        /\ get_queue_status.processing_jobs = 1
        /\ get_queue_status.pending_jobs = N - 1
        /\ \A k \in 2..N : get_queue_position(k) = k - 1
        /\ \A k \in 1..(N - 1) :
               get_queue_position(k) < get_queue_position(k + 1)

C12_Witness ==
    /\ Quiescent
    /\ Len(job) = 5
    /\ worker[1].pc = "call"
    /\ get_queue_status.pending_jobs = 4
    /\ get_queue_position(5) = 4


(* C13: never more than max_workers conversion functions executing and     *)
(* never more than max_workers jobs Processing; a job is inserted Pending, *)
(* and while it waits in the work queue with every thread of the pool busy *)
(* no step makes it Processing (it stays Pending, unless cancel_job        *)
(* cancels it).                                                            *)
Executing == {w \in Workers : worker[w].pc = "call"}

Queued(j) == \E i \in 1..Len(work_queue) : work_queue[i] = j

AllSlotsBusy == \A w \in 1..max_workers : worker[w].pc # "idle"

Ended(j) ==
    IF j \in Created THEN job[j].status \in Terminal ELSE FALSE

ReturnedSuccess(j) ==
    IF j \in Created
    THEN hist[j].outcome = "true" /\ file[j] = "nonempty"
    ELSE FALSE

CompletedOrCancelled(j) ==
    IF j \in Created
    THEN \/ job[j].status = COMPLETED /\ job[j].progress = 100
         \/ CancelAccepted(j)
    ELSE FALSE

C15_JanitorRemovesOnlyEnded ==
    [][\A j \in jobs \ jobs' :
          /\ job[j].status \notin {PENDING, PROCESSING}
          /\ job[j].completed_at # None
          /\ job[j].completed_at[1] < cutoff_time
          /\ j \notin job_futures']_vars


(* C16: active_workers of get_queue_status is the number of pool threads   *)
(* inside a job body (past the first locked block of _process_conversion   *)
(* and not yet out of the last), whatever the status of their job, and is  *)
(* never above max_workers.                                                *)
InJobBody == {w \in Workers :
                 worker[w].pc \in {"cb10", "cb20", "call", "finalize", "except"}}

C16_ActiveWorkersAreBusySlots ==
    /\ get_queue_status.active_workers = Cardinality(InJobBody)
    /\ get_queue_status.active_workers <= max_workers


(* The result of the call of convert that has returned. *)
Returned == call.pc = "done"
result == call.result[1]

(* The registered engines whose own can_convert accepts the pair of the    *)
(* call, in registration order.                                            *)
Claimants ==
    LET Claims(engine_name) ==
            engine_can_convert(engine_name, call.input_format, call.output_format)
    IN  SelectSeq(engines, Claims)

EntrySucceeded(entry) == EngineSucceeded(entry.returned, entry.leaves)

(* C17: convert returns success=true only with a non-empty file at         *)
(* output_path.                                                            *)
C17_SuccessMeansNonEmptyOutput ==
    (Returned /\ result.success) => output = "nonempty"

(* C18: when a candidate engine has failed, by raising or by returning     *)
(* False, the next engine that claims the pair is invoked in the same      *)
(* call; when the engine invoked last succeeded the result is success with *)
(* that engine's name; and a call that entered the loop returns a failure  *)
(* only after every candidate was invoked.                                 *)
C18_FailureFallsThrough ==
    (Returned /\ call.invoked # << >>) =>
        LET n == Len(call.invoked)
            last == call.invoked[n]
        IN
        /\ \A i \in 1..n, c \in 1..(Len(Claimants) - 1) :
               (call.invoked[i].returned # "True"
                    /\ call.invoked[i].engine = Claimants[c])
                 => \E k \in 1..n : call.invoked[k].engine = Claimants[c + 1]
        /\ EntrySucceeded(last) =>
               result.success /\ result.engine = Some(name(last.engine))
        /\ ~result.success =>
               {call.invoked[i].engine : i \in 1..n} = Range(Claimants)

C18_Witness ==
    /\ Returned
    /\ Len(call.invoked) = 2
    /\ call.invoked[1].engine = "image"
    /\ call.invoked[1].returned = "ConversionError"
    /\ call.invoked[2].engine = "document"
    /\ EntrySucceeded(call.invoked[2])
    /\ result.success
    /\ result.engine = Some("DocumentEngine")

(* C19: the engines invoked in a call are the first candidates of the      *)
(* pair in registration order; none is invoked after one that returned     *)
(* success and left the output file, and the call then returns success     *)
(* with that engine's name.                                                *)
C19_RegistrationOrderFirstSuccess ==
    LET n == Len(call.invoked) IN
    /\ n <= Len(Claimants)
    /\ \A i \in 1..n : call.invoked[i].engine = Claimants[i]
    /\ \A i \in 1..(n - 1) : ~EntrySucceeded(call.invoked[i])
    /\ (n > 0 /\ EntrySucceeded(call.invoked[n])) =>
           /\ Returned
           /\ result.success
           /\ result.engine = Some(name(call.invoked[n].engine))

C19_Witness ==
    /\ Returned
    /\ Len(Claimants) = 2
    /\ Len(call.invoked) = 1
    /\ EntrySucceeded(call.invoked[1])
    /\ result.engine = Some("ImageEngine")

(* C20: a call whose pair can_convert rejects, or whose input file does    *)
(* not exist, returns success=false without invoking any engine.           *)
C20_RejectedCallInvokesNoEngine ==
    (/\ call.pc # "idle"
     /\ \/ ~can_convert(call.input_format, call.output_format)
        \/ ~call.input_exists)
        => /\ Returned
           /\ ~result.success
           /\ call.invoked = << >>

C20_Witness ==
    /\ Returned
    /\ can_convert(call.input_format, call.output_format)
    /\ ~call.input_exists
    /\ ~result.success
    /\ call.invoked = << >>


(* The call entered the loop and every candidate engine was invoked        *)
(* without success.                                                        *)
Exhausted ==
    /\ Returned
    /\ call.invoked # << >>
    /\ ~EntrySucceeded(call.invoked[Len(call.invoked)])

InvokedEngines == [i \in 1..Len(call.invoked) |-> call.invoked[i].engine]

(* str(e) of the last engine of the call that raised, None if none did. *)
LastRaisedError ==
    LET raisers == {i \in 1..Len(call.invoked) : Raised(call.invoked[i].returned)}
        last == CHOOSE i \in raisers : \A k \in raisers : k <= i
    IN  IF raisers = {} THEN None
        ELSE Some(ErrorText(call.invoked[last].engine, call.invoked[last].returned))

(* C21, as stated: convert never raises and returns a record with a        *)
(* success field; after every candidate was tried without success the      *)
(* record has success=false, the error of the engine that failed last (the *)
(* engine invoked last) and the list of the engines attempted.             *)
C21_FailureCarriesLastEnginesError ==
    /\ call.pc # "raised"
    /\ Returned => result.success \in BOOLEAN
    /\ Exhausted =>
           LET last == call.invoked[Len(call.invoked)] IN
           /\ ~result.success
           /\ Raised(last.returned)
           /\ result.error = Some(<<"All engines failed",
                                    Some(ErrorText(last.engine, last.returned))>>)
           /\ result.attempted_engines = Some(InvokedEngines)

(* What holds of the record instead: its error is that of the last engine *)
(* that raised, which need not be the engine that failed last, and is None *)
(* when every engine failed by returning False or by leaving no file.      *)
C21_FailureCarriesLastRaisedError ==
    /\ call.pc # "raised"
    /\ Returned => result.success \in BOOLEAN
    /\ Exhausted =>
           /\ ~result.success
           /\ result.error = Some(<<"All engines failed", LastRaisedError>>)
           /\ result.attempted_engines = Some(InvokedEngines)


(* C22: for format names x and y in any letter case, can_convert(x, y) is  *)
(* true exactly when lower(x) is a key of get_conversion_matrix() and      *)
(* lower(y) is in the list under that key.                                 *)
C22_CanConvertIsMatrixMembership ==
    \A x \in FormatNames, y \in FormatNames :
        can_convert(x, y) <=>
            \E key \in DOMAIN get_conversion_matrix :
                /\ key = lower(x)
                /\ \E k \in 1..Len(get_conversion_matrix[key]) :
                       get_conversion_matrix[key][k] = lower(y)

C22_Witness ==
    /\ can_convert("PDF", "png")
    /\ "pdf" \in DOMAIN get_conversion_matrix
    /\ "PDF" \notin DOMAIN get_conversion_matrix
    /\ ~can_convert("txt", "png")
    /\ "txt" \notin DOMAIN get_conversion_matrix
    /\ \E key \in DOMAIN get_conversion_matrix : get_conversion_matrix[key] = << >>
    /\ call.pc = "loop"


(* C27: in the router as built, the candidate list of every pair of format *)
(* names is the sequence of the registered engines whose own can_convert   *)
(* accepts the pair, each once and in registration order; it is non-empty  *)
(* exactly when the router's can_convert accepts the pair; and the global  *)
(* matrix is the union of the engines' matrices.                           *)
Formats == {lower(x) : x \in FormatNames}

ClaimantsOf(input_format, output_format) ==
    LET Claims(engine_name) ==
            engine_can_convert(engine_name, input_format, output_format)
    IN  SelectSeq(engines, Claims)

C27_CandidatesAreTheClaimingEngines ==
    \A in \in Formats, out \in Formats :
        /\ Candidates(conversion_key(in, out)) = ClaimantsOf(in, out)
        /\ Candidates(conversion_key(in, out)) # << >> <=> can_convert(in, out)
        /\ can_convert(in, out) <=>
               \E e \in Range(engines) : engine_can_convert(e, in, out)

C27_Witness ==
    /\ Candidates(conversion_key("pdf", "png")) = <<"image", "document">>
    /\ Candidates(conversion_key("pdf", "txt")) = <<"document">>
    /\ Candidates(conversion_key("png", "pdf")) = << >>
    /\ ~can_convert("png", "pdf")
    /\ call.pc = "loop"


(* C23: a job whose function is the wrapper around the router and whose    *)
(* router result has success=false is never Completed, and once the pool   *)
(* thread is done with it it is Failed (or Cancelled, if it was            *)
(* cancelled).                                                             *)
C23_RouterFailureFailsTheJob ==
    \A j \in Created :
        hist[j].outcome = "success=false" =>
            /\ job[j].status # COMPLETED
            /\ hist[j].handled => job[j].status \in {FAILED, CANCELLED}


(* C24: a pool thread that is inside the conversion function holds the     *)
(* lock only for a report the function itself makes, never from a block it *)
(* entered before the call; so whenever every thread of the pool is inside *)
(* a function and none is reporting, the lock is free and each call of the *)
(* API can enter its block at once.                                        *)
InFunction(w) == w \in entered /\ worker[w].pc = "call"

C24_LockNotHeldAcrossCall ==
    /\ \A w \in Workers :
           (InFunction(w) /\ lock.holder = w) => lock.stamp[1] = "call"
    /\ ((\A w \in 1..max_workers : InFunction(w) /\ lock.holder # w)
           => lock = Free)

C24_Witness ==
    /\ max_workers = 2
    /\ \A w \in 1..max_workers : InFunction(w)
    /\ lock = Free
    /\ \E j \in Created : hist[j].cancelled_processing


(* C25: a report made through the reporter of a job whose status has       *)
(* become Cancelled (a cancel_job on it was accepted) raises into the      *)
(* conversion body and changes neither the progress nor the message of the *)
(* job.                                                                    *)
ReportMade(w) ==
    \/ /\ worker[w].pc \in {"cb10", "cb20"}
       /\ worker'[w] # worker[w]
    \/ /\ worker[w].pc = "call"
       /\ hist'[worker[w].job].reports # hist[worker[w].job].reports

ReportAborted(w) ==
    /\ worker'[w].pc = "except"
    /\ worker'[w].exc = "Conversion cancelled"
    /\ job'[worker[w].job].progress = job[worker[w].job].progress
    /\ job'[worker[w].job].message = job[worker[w].job].message

C25_ReportAfterCancelAborts ==
    [][\A w \in Workers :
          (worker[w].job # 0 /\ CancelAccepted(worker[w].job) /\ ReportMade(w))
              => ReportAborted(w)]_vars

(* What holds instead: the report aborts when the status is Cancelled at   *)
(* the moment of the report.                                               *)
C25_ReportWhileCancelledAborts ==
    [][\A w \in Workers :
          (/\ worker[w].job # 0
           /\ job[worker[w].job].status = CANCELLED
           /\ ReportMade(w))
              => ReportAborted(w)]_vars


(* C26: while the status of a job is Processing its progress lies within   *)
(* [0,95], whatever integer the conversion function reports (negative,     *)
(* above 95, above 100) and for the values the worker's own steps store.   *)
C26_ProcessingProgressWithin0And95 ==
    \A j \in Created :
        job[j].status = PROCESSING
            => (job[j].progress >= 0 /\ job[j].progress <= 95)

(* Two Processing jobs whose functions have reported: one reported -1 and  *)
(* shows 0, the other reported 120 and shows 95.                           *)
C26_Witness ==
    \E j, k \in Created :
        /\ job[j].status = PROCESSING /\ job[k].status = PROCESSING
        /\ hist[j].reports = 1 /\ hist[k].reports = 1
        /\ job[j].progress = 0
        /\ job[k].progress = 95


(* C28: with max_workers = 1 and no cancellation, jobs enter Processing in *)
(* the order in which submit_conversion inserted them (the order of their  *)
(* ids here): no step makes a job Processing while a job inserted earlier  *)
(* is still Pending.                                                       *)
NoCancellation == \A j \in Created : ~CancelAccepted(j)

C28_SingleWorkerServesInInsertionOrder ==
    [][(max_workers = 1 /\ NoCancellation)
          => \A j \in Created :
                 (job[j].status # PROCESSING /\ job'[j].status = PROCESSING)
                     => \A i \in 1..(j - 1) : job[i].status # PENDING]_vars

(* The single thread has finished the first job and has made the second    *)
(* Processing.                                                             *)
C28_Witness ==
    /\ max_workers = 1
    /\ NoCancellation
    /\ Len(job) = 2
    /\ hist[1].handled
    /\ job[1].status \in {COMPLETED, FAILED}
    /\ job[2].status = PROCESSING


(* C29: the cleanup pass removes no job from the registry while a pool     *)
(* thread is executing the conversion function of that job; a job          *)
(* cancelled while Processing stays registered until its function has      *)
(* returned.                                                               *)
ExecutingFunctionOf(j) ==
    \E w \in Workers : worker[w].job = j /\ worker[w].pc = "call"

C29_JanitorSparesRunningFunctions ==
    [][\A j \in jobs \ jobs' : ~ExecutingFunctionOf(j)]_vars


(* C30: the keys of self.jobs are the keys of self.job_futures in every    *)
(* state, also when the executor rejects a submission after shutdown.      *)
C30_JobsAndFuturesHaveTheSameKeys == jobs = job_futures

===========================================================================
